---- MODULE Spec2Model ----
(***************************************************************************)
(* Model of synapse/rest/client/v2_alpha/_base.py: the four helpers used   *)
(* by the client v2_alpha REST servlets.                                   *)
(*                                                                         *)
(*   client_v2_patterns        path template -> compiled path matchers     *)
(*   set_timeline_upper_limit  clamp of filter_json.room.timeline.limit    *)
(*   check_3pid_allowed        3PID whitelist scan                         *)
(*   interactive_auth_handler  Deferred errback turning the                *)
(*                             InteractiveAuthIncompleteError into a 401   *)
(*                                                                         *)
(* Python strings are sequences of one-character strings, so that          *)
(* str.replace, "%d" formatting, concatenation and re.match are computed   *)
(* character by character.                                                 *)
(***************************************************************************)
EXTENDS Integers, Sequences, FiniteSets, TLC

VARIABLES
    \* client_v2_patterns
    path_regex, releases, v2_alpha, unstable, patterns, pcPat,
    \* set_timeline_upper_limit
    filter_json, filter_trace, limit_trace,
    \* check_3pid_allowed
    registrations_require_3pid, medium, address, allow, idx, pc3pid,
    logged, matchCalls,
    \* interactive_auth_handler
    orig, remaining, res, pcAuth

patVars  == <<path_regex, releases, v2_alpha, unstable, patterns, pcPat>>
clampVars == <<filter_json, filter_trace, limit_trace>>
pidVars  == <<registrations_require_3pid, medium, address, allow, idx, pc3pid,
              logged, matchCalls>>
authVars == <<orig, remaining, res, pcAuth>>
vars     == <<patVars, clampVars, pidVars, authVars>>

(***************************************************************************)
(* Bounds of the model.                                                    *)
(***************************************************************************)
MaxRelease  == 11   \* release numbers range over 0..MaxRelease
MaxReleases == 2    \* length of the releases argument
MaxLimit    == 3    \* timeline limits and ceilings range over -1..MaxLimit
MaxCalls    == 2    \* successive clamps of one filter
MaxPolicy   == 2    \* number of 3PID constraints in the configuration
MaxSuspend  == 2    \* suspension points of one handler run
NumRequests == 2    \* concurrently running wrapped invocations

\* All sequences over S of length at most n.
SeqUpTo(S, n) == UNION {[1..k -> S] : k \in 0..n}

(***************************************************************************)
(* Idle values of each helper's state, used by the specifications of the   *)
(* other helpers (the four share no state).                                *)
(***************************************************************************)
PatIdle ==
    /\ path_regex = <<>> /\ releases = <<>> /\ v2_alpha = FALSE
    /\ unstable = FALSE /\ patterns = <<>> /\ pcPat = "idle"

ClampIdle ==
    /\ filter_json = <<>> /\ filter_trace = <<>> /\ limit_trace = <<>>

PidIdle ==
    /\ registrations_require_3pid = [present |-> FALSE, items |-> <<>>]
    /\ medium = "" /\ address = <<>> /\ allow = FALSE /\ idx = 0
    /\ pc3pid = "idle" /\ logged = <<>> /\ matchCalls = <<>>

AuthIdle ==
    /\ orig = <<>> /\ remaining = <<>> /\ res = <<>> /\ pcAuth = <<>>

(***************************************************************************)
(* client_v2_patterns                                                      *)
(***************************************************************************)

\* synapse.api.urls.CLIENT_V2_ALPHA_PREFIX = "/_matrix/client/v2_alpha"
CLIENT_V2_ALPHA_PREFIX ==
    <<"/", "_", "m", "a", "t", "r", "i", "x",
      "/", "c", "l", "i", "e", "n", "t",
      "/", "v", "2", "_", "a", "l", "p", "h", "a">>

V2AlphaSegment  == <<"/", "v", "2", "_", "a", "l", "p", "h", "a">>
UnstableSegment == <<"/", "u", "n", "s", "t", "a", "b", "l", "e">>

\* str.replace(old, new): every non-overlapping occurrence, left to right.
RECURSIVE Replace(_, _, _)
Replace(s, old, new) ==
    IF Len(s) < Len(old) THEN s
    ELSE IF SubSeq(s, 1, Len(old)) = old
         THEN new \o Replace(SubSeq(s, Len(old) + 1, Len(s)), old, new)
         ELSE <<Head(s)>> \o Replace(Tail(s), old, new)

Digit(d) == CASE d = 0 -> "0" [] d = 1 -> "1" [] d = 2 -> "2" [] d = 3 -> "3"
              [] d = 4 -> "4" [] d = 5 -> "5" [] d = 6 -> "6" [] d = 7 -> "7"
              [] d = 8 -> "8" [] d = 9 -> "9"

\* Mutant: only the last digit of the release is formatted.
FormatD_LastDigit(n) == <<Digit(n % 10)>>

\* "%d" % release
RECURSIVE FormatD(_)
FormatD(n) ==
    IF n < 0 THEN <<"-">> \o FormatD(0 - n)
    ELSE IF n < 10 THEN <<Digit(n)>>
    ELSE FormatD(n \div 10) \o <<Digit(n % 10)>>

\* re.compile(s): the matcher object, carrying the pattern text it matches.
ReCompile(s) == [pattern |-> s]

UnstablePrefix == Replace(CLIENT_V2_ALPHA_PREFIX, V2AlphaSegment, UnstableSegment)

ReleasePrefix(release) ==
    Replace(CLIENT_V2_ALPHA_PREFIX, V2AlphaSegment, <<"/", "r">> \o FormatD(release))

RECURSIVE ReleasePatterns(_, _)
ReleasePatterns(p, rs) ==
    IF rs = <<>> THEN <<>>
    ELSE <<ReCompile(<<"^">> \o ReleasePrefix(Head(rs)) \o p)>>
         \o ReleasePatterns(p, Tail(rs))

\* Mutant: the release substitution is applied to prefix and path template
\* together instead of to the prefix alone.
RECURSIVE ReleasePatternsWhole(_, _)
ReleasePatternsWhole(p, rs) ==
    IF rs = <<>> THEN <<>>
    ELSE <<ReCompile(<<"^">> \o Replace(CLIENT_V2_ALPHA_PREFIX \o p, V2AlphaSegment,
                                        <<"/", "r">> \o FormatD(Head(rs))))>>
         \o ReleasePatternsWhole(p, Tail(rs))

client_v2_patterns_ReplaceWhole(p, rs, alpha, unst) ==
    (IF alpha THEN <<ReCompile(<<"^">> \o CLIENT_V2_ALPHA_PREFIX \o p)>> ELSE <<>>)
    \o (IF unst THEN <<ReCompile(<<"^">> \o UnstablePrefix \o p)>> ELSE <<>>)
    \o ReleasePatternsWhole(p, rs)

client_v2_patterns(p, rs, alpha, unst) ==
    (IF alpha THEN <<ReCompile(<<"^">> \o CLIENT_V2_ALPHA_PREFIX \o p)>> ELSE <<>>)
    \o (IF unst THEN <<ReCompile(<<"^">> \o UnstablePrefix \o p)>> ELSE <<>>)
    \o ReleasePatterns(p, rs)

\* Path templates the servlets register: "/sync$", "/v2_alpha", "".
PathTemplates ==
    { <<"/", "s", "y", "n", "c", "$">>, V2AlphaSegment, <<>> }

PatInit ==
    /\ path_regex \in PathTemplates
    /\ releases \in SeqUpTo(0..MaxRelease, MaxReleases)
    /\ v2_alpha \in BOOLEAN
    /\ unstable \in BOOLEAN
    /\ patterns = <<>>
    /\ pcPat = "call"
    /\ ClampIdle /\ PidIdle /\ AuthIdle

ClientV2Patterns ==
    /\ pcPat = "call"
    /\ patterns' = client_v2_patterns(path_regex, releases, v2_alpha, unstable)
    /\ pcPat' = "returned"
    /\ UNCHANGED <<path_regex, releases, v2_alpha, unstable>>
    /\ UNCHANGED <<clampVars, pidVars, authVars>>

PatNext == ClientV2Patterns

SpecPatterns == PatInit /\ [][PatNext]_vars

(***************************************************************************)
(* Properties of client_v2_patterns                                        *)
(***************************************************************************)

\* "/_matrix/client": the base prefix without its generation segment.
ClientBase ==
    <<"/", "_", "m", "a", "t", "r", "i", "x", "/", "c", "l", "i", "e", "n", "t">>

DigitChars == {"0", "1", "2", "3", "4", "5", "6", "7", "8", "9"}

DigitValue(c) ==
    CASE c = "0" -> 0 [] c = "1" -> 1 [] c = "2" -> 2 [] c = "3" -> 3 [] c = "4" -> 4
      [] c = "5" -> 5 [] c = "6" -> 6 [] c = "7" -> 7 [] c = "8" -> 8 [] c = "9" -> 9

\* The number a decimal numeral denotes.
RECURSIVE ParseDecimal(_)
ParseDecimal(s) ==
    IF s = <<>> THEN 0
    ELSE ParseDecimal(SubSeq(s, 1, Len(s) - 1)) * 10 + DigitValue(s[Len(s)])

\* s is the decimal numeral of n, without sign or leading zeros.
IsNumeralOf(s, n) ==
    /\ Len(s) >= 1
    /\ \A i \in 1..Len(s) : s[i] \in DigitChars
    /\ (Len(s) > 1 => s[1] # "0")
    /\ ParseDecimal(s) = n

AlphaCount    == IF v2_alpha THEN 1 ELSE 0
UnstableCount == IF unstable THEN 1 ELSE 0

\* text = "^" + ClientBase + "/r" + <numeral of release> + path_regex
IsReleasePattern(text, release) ==
    LET head == <<"^">> \o ClientBase \o <<"/", "r">>
        n    == Len(text) - Len(head) - Len(path_regex)
    IN  /\ n >= 1
        /\ SubSeq(text, 1, Len(head)) = head
        /\ IsNumeralOf(SubSeq(text, Len(head) + 1, Len(head) + n), release)
        /\ SubSeq(text, Len(head) + n + 1, Len(text)) = path_regex

\* C5: client_v2_patterns returns (v2_alpha?1:0) + (unstable?1:0) +
\* len(releases) matchers, ordered alpha, unstable, then the releases in the
\* order given; each pattern is "^", then the prefix variant
\* ("/_matrix/client/v2_alpha", "/_matrix/client/unstable" or
\* "/_matrix/client/r<release>"), then the path template.
C5_PatternsShape ==
    pcPat = "returned" =>
        /\ Len(patterns) = AlphaCount + UnstableCount + Len(releases)
        /\ v2_alpha =>
             patterns[1].pattern = <<"^">> \o ClientBase \o V2AlphaSegment \o path_regex
        /\ unstable =>
             patterns[AlphaCount + 1].pattern =
                 <<"^">> \o ClientBase \o UnstableSegment \o path_regex
        /\ \A k \in 1..Len(releases) :
             IsReleasePattern(patterns[AlphaCount + UnstableCount + k].pattern,
                              releases[k])

C5_Witness ==
    /\ pcPat = "returned"
    /\ v2_alpha /\ unstable
    /\ Len(releases) = 2 /\ releases[1] = 10 /\ releases[2] = 0
    /\ path_regex = V2AlphaSegment
    /\ Len(patterns) = 4

\* The input a position of the result was built from.
PatternOrigin(i) ==
    IF v2_alpha /\ i = 1 THEN <<"alpha", 0>>
    ELSE IF unstable /\ i = AlphaCount + 1 THEN <<"unstable", 0>>
    ELSE <<"release", releases[i - AlphaCount - UnstableCount]>>

\* C9: within one result of client_v2_patterns the alpha prefix, the unstable
\* prefix and the prefixes of distinct release numbers are pairwise distinct
\* (the patterns built from them on the one path template differ).
C9_PrefixesDistinct ==
    pcPat = "returned" =>
        \A i, j \in 1..Len(patterns) :
            PatternOrigin(i) # PatternOrigin(j) => patterns[i] # patterns[j]

C9_Witness ==
    /\ pcPat = "returned"
    /\ v2_alpha /\ unstable
    /\ Len(releases) = 2 /\ releases[1] = 1 /\ releases[2] = 11
    /\ Len(patterns) = 4
    /\ patterns[3] # patterns[4]

(***************************************************************************)
(* set_timeline_upper_limit                                                *)
(*                                                                         *)
(* A dict is a function on the set of its keys.  filter_json may hold      *)
(* "room" and "presence"; room may hold "timeline" and "state"; each of    *)
(* timeline, state and presence may hold "limit" and "types".              *)
(***************************************************************************)

EmptyDict == <<>>

\* dict.get(key, default)
Get(d, key, default) == IF key \in DOMAIN d THEN d[key] ELSE default

\* min(a, b)
Min(a, b) == IF a <= b THEN a ELSE b

\* Mutant: the clamp lands one below the smaller value.
set_timeline_upper_limit_OffByOne(f, limit) ==
    IF limit < 0 THEN f
    ELSE LET timeline == Get(Get(f, "room", EmptyDict), "timeline", EmptyDict)
         IN  IF "limit" \in DOMAIN timeline
             THEN [f EXCEPT !["room"]["timeline"]["limit"] = Min(@, limit) - 1]
             ELSE f

\* Mutant: a negative ceiling is not treated as "no upper limit".
set_timeline_upper_limit_NoSignCheck(f, limit) ==
    LET timeline == Get(Get(f, "room", EmptyDict), "timeline", EmptyDict)
    IN  IF "limit" \in DOMAIN timeline
        THEN [f EXCEPT !["room"]["timeline"]["limit"] = Min(@, limit)]
        ELSE f

\* Mutant: the ceiling overwrites the limit whatever its value.
set_timeline_upper_limit_Overwrite(f, limit) ==
    IF limit < 0 THEN f
    ELSE LET timeline == Get(Get(f, "room", EmptyDict), "timeline", EmptyDict)
         IN  IF "limit" \in DOMAIN timeline
             THEN [f EXCEPT !["room"]["timeline"]["limit"] = limit]
             ELSE f

\* The filter after set_timeline_upper_limit(filter_json, filter_timeline_limit).
set_timeline_upper_limit(f, limit) ==
    IF limit < 0 THEN f
    ELSE LET timeline == Get(Get(f, "room", EmptyDict), "timeline", EmptyDict)
         IN  IF "limit" \in DOMAIN timeline
             THEN [f EXCEPT !["room"]["timeline"]["limit"] = Min(@, limit)]
             ELSE f

Limits == -1..MaxLimit

\* Event-filter dicts: any subset of the keys limit and types.
EventFilters ==
    UNION { { [k \in K |-> IF k = "limit" THEN l ELSE 0] : l \in Limits }
            : K \in SUBSET {"limit", "types"} }

\* Other event filters of the structure, each carrying a limit of its own.
StateFilter    == [k \in {"limit"} |-> MaxLimit]
PresenceFilter == [k \in {"limit"} |-> MaxLimit]

RoomFilters ==
    UNION { { [k \in K |-> IF k = "timeline" THEN t ELSE StateFilter]
              : t \in EventFilters }
            : K \in SUBSET {"timeline", "state"} }

Filters ==
    UNION { { [k \in K |-> IF k = "room" THEN r ELSE PresenceFilter]
              : r \in RoomFilters }
            : K \in SUBSET {"room", "presence"} }

ClampInit ==
    /\ filter_json \in Filters
    /\ filter_trace = <<>>
    /\ limit_trace = <<>>
    /\ PatIdle /\ PidIdle /\ AuthIdle

\* One call set_timeline_upper_limit(filter_json, limit) on the caller's dict.
\* filter_trace keeps the dict as it was before each call, limit_trace the
\* ceiling each call was given.
SetTimelineUpperLimit(limit) ==
    /\ Len(limit_trace) < MaxCalls
    /\ filter_trace' = Append(filter_trace, filter_json)
    /\ limit_trace' = Append(limit_trace, limit)
    /\ filter_json' = set_timeline_upper_limit(filter_json, limit)
    /\ UNCHANGED <<patVars, pidVars, authVars>>

ClampNext == \E limit \in Limits : SetTimelineUpperLimit(limit)

SpecClamp == ClampInit /\ [][ClampNext]_vars

(***************************************************************************)
(* Properties of set_timeline_upper_limit                                  *)
(***************************************************************************)

Calls == Len(limit_trace)

\* The dict after call n (before call n + 1, or as it is now).
FilterAfter(n) == IF n < Calls THEN filter_trace[n + 1] ELSE filter_json

HasRoom(f)     == "room" \in DOMAIN f
HasTimeline(f) == HasRoom(f) /\ "timeline" \in DOMAIN f["room"]
HasLimit(f)    == HasTimeline(f) /\ "limit" \in DOMAIN f["room"]["timeline"]

\* C6: for a ceiling c >= 0, a second set_timeline_upper_limit(F, c) right
\* after a first one leaves F as the first one left it.
C6_ClampIdempotent ==
    \A n \in 2..Calls :
        (limit_trace[n] = limit_trace[n - 1] /\ limit_trace[n] >= 0)
            => FilterAfter(n) = FilterAfter(n - 1)

\* The first of two calls with one ceiling lowered the limit.
C6_Witness ==
    /\ Calls >= 2
    /\ limit_trace[1] = limit_trace[2] /\ limit_trace[1] >= 0
    /\ filter_trace[1] # filter_trace[2]
    /\ FilterAfter(2) = FilterAfter(1)

\* C7: set_timeline_upper_limit leaves the dict as it was when the ceiling
\* is negative and when room.timeline.limit does not exist (room, timeline
\* or limit absent); none of these keys is created.
C7_ClampNoOp ==
    \A n \in 1..Calls :
        (limit_trace[n] < 0 \/ ~HasLimit(filter_trace[n]))
            => /\ FilterAfter(n) = filter_trace[n]
               /\ HasRoom(FilterAfter(n)) = HasRoom(filter_trace[n])
               /\ HasTimeline(FilterAfter(n)) = HasTimeline(filter_trace[n])
               /\ HasLimit(FilterAfter(n)) = HasLimit(filter_trace[n])

\* A ceiling >= 0 met a dict whose timeline has no limit, then a negative
\* ceiling met the same dict; it is as it was before both calls.
C7_Witness ==
    /\ Calls = 2
    /\ limit_trace[1] >= 0
    /\ HasTimeline(filter_trace[1]) /\ ~HasLimit(filter_trace[1])
    /\ DOMAIN filter_trace[1]["room"]["timeline"] = {"types"}
    /\ limit_trace[2] < 0
    /\ filter_json = filter_trace[1]

\* C8: when room.timeline.limit exists with value L and the ceiling c is
\* >= 0, the limit becomes min(L, c) and every other key, at every level of
\* the dict, keeps its value.
C8_ClampMin ==
    \A n \in 1..Calls :
        (limit_trace[n] >= 0 /\ HasLimit(filter_trace[n])) =>
            LET before == filter_trace[n]
                after  == FilterAfter(n)
                L      == before["room"]["timeline"]["limit"]
                c      == limit_trace[n]
            IN  /\ HasLimit(after)
                /\ after["room"]["timeline"]["limit"] <= c
                /\ after["room"]["timeline"]["limit"] <= L
                /\ after["room"]["timeline"]["limit"] \in {L, c}
                /\ DOMAIN after = DOMAIN before
                /\ \A k \in DOMAIN before \ {"room"} : after[k] = before[k]
                /\ DOMAIN after["room"] = DOMAIN before["room"]
                /\ \A k \in DOMAIN before["room"] \ {"timeline"} :
                       after["room"][k] = before["room"][k]
                /\ DOMAIN after["room"]["timeline"] = DOMAIN before["room"]["timeline"]
                /\ \A k \in DOMAIN before["room"]["timeline"] \ {"limit"} :
                       after["room"]["timeline"][k] = before["room"]["timeline"][k]

\* A limit above the ceiling was lowered, next to sibling keys at each level.
C8_Witness ==
    /\ Calls >= 1
    /\ limit_trace[1] >= 0 /\ HasLimit(filter_trace[1])
    /\ filter_trace[1]["room"]["timeline"]["limit"] > limit_trace[1]
    /\ DOMAIN filter_trace[1] = {"room", "presence"}
    /\ DOMAIN filter_trace[1]["room"] = {"timeline", "state"}
    /\ DOMAIN filter_trace[1]["room"]["timeline"] = {"limit", "types"}
    /\ FilterAfter(1)["room"]["timeline"]["limit"] = limit_trace[1]

(***************************************************************************)
(* check_3pid_allowed                                                      *)
(*                                                                         *)
(* hs.config.registrations_require_3pid is None (present = FALSE) or a     *)
(* list of constraints {medium, pattern}.  The scan is modelled one loop   *)
(* iteration per step; logged records the constraints handed to            *)
(* logger.debug, matchCalls those handed to re.match.                      *)
(***************************************************************************)

\* re: a pattern does not compile ("nothing to repeat", "multiple repeat",
\* "missing ), unterminated subpattern").  The alphabet has no ")".
ReMalformed(p) ==
    \E i \in 1..Len(p) :
        \/ p[i] = "("
        \/ p[i] = "*" /\ (i = 1 \/ p[i - 1] \in {"*", "$", "("})

\* The backtracking matcher of re for literals, ".", "x*" and "$":
\* does re match text starting at its first character?
RECURSIVE MatchHere(_, _)
RECURSIVE MatchStar(_, _, _)
MatchHere(re, text) ==
    IF re = <<>> THEN TRUE
    ELSE IF Len(re) >= 2 /\ re[2] = "*"
         THEN MatchStar(re[1], SubSeq(re, 3, Len(re)), text)
    ELSE IF re[1] = "$"
         THEN text = <<>> /\ MatchHere(Tail(re), text)
    ELSE /\ text # <<>>
         /\ (re[1] = "." \/ re[1] = text[1])
         /\ MatchHere(Tail(re), Tail(text))

MatchStar(c, re, text) ==
    \/ MatchHere(re, text)
    \/ /\ text # <<>>
       /\ (c = "." \/ c = text[1])
       /\ MatchStar(c, re, Tail(text))

\* Mutant: the pattern has to match the whole string (re.fullmatch).
ReMatch_Full(p, s) == MatchHere(p \o <<"$">>, s)

\* re.match(pattern, string) of a pattern that compiles: a match object
\* (truthy) when the pattern matches at the start of the string.
ReMatch(p, s) == MatchHere(p, s)

\* Truth value of the configured list: None and [] are false.
Truthy(config) == config.present /\ config.items # <<>>

Mediums   == {"email", "msisdn"}
Addresses == { <<"a">>, <<"a", "b">>, <<"b">> }
Patterns  == { <<"a">>, <<"a", "$">>, <<".", "*", "b">>, <<"(">> }
Constraints == [medium : Mediums, pattern : Patterns]

PidInit ==
    /\ registrations_require_3pid \in
          {[present |-> FALSE, items |-> <<>>]}
          \cup [present : {TRUE}, items : SeqUpTo(Constraints, MaxPolicy)]
    /\ medium \in Mediums
    /\ address \in Addresses
    /\ allow = FALSE
    /\ idx = 0
    /\ pc3pid = "call"
    /\ logged = <<>>
    /\ matchCalls = <<>>
    /\ PatIdle /\ ClampIdle /\ AuthIdle

\* Lines 66-67 and 78-79: allow = False, then the test of the configured list.
Check3pidEnter ==
    /\ pc3pid = "call"
    /\ IF Truthy(registrations_require_3pid)
       THEN /\ allow' = FALSE
            /\ idx' = 1
            /\ pc3pid' = "loop"
       ELSE /\ allow' = TRUE
            /\ idx' = 0
            /\ pc3pid' = "return"
    /\ UNCHANGED <<registrations_require_3pid, medium, address, logged, matchCalls>>
    /\ UNCHANGED <<patVars, clampVars, authVars>>

\* Mutant: the scan goes on after a match.
Check3pidIter_NoBreak ==
    LET constraint == registrations_require_3pid.items[idx]
        sameMedium == medium = constraint.medium
        last       == idx = Len(registrations_require_3pid.items)
    IN  /\ pc3pid = "loop"
        /\ logged' = Append(logged, idx)
        /\ matchCalls' = IF sameMedium THEN Append(matchCalls, idx) ELSE matchCalls
        /\ IF sameMedium /\ ReMalformed(constraint.pattern)
           THEN /\ pc3pid' = "raised"
                /\ UNCHANGED <<allow, idx>>
           ELSE /\ allow' = (allow \/ (sameMedium /\ ReMatch(constraint.pattern, address)))
                /\ idx' = idx + 1
                /\ pc3pid' = IF last THEN "return" ELSE "loop"
        /\ UNCHANGED <<registrations_require_3pid, medium, address>>
        /\ UNCHANGED <<patVars, clampVars, authVars>>

\* Mutant: the pattern is matched before the medium is compared.
Check3pidIter_MatchFirst ==
    LET constraint == registrations_require_3pid.items[idx]
        sameMedium == medium = constraint.medium
        last       == idx = Len(registrations_require_3pid.items)
    IN  /\ pc3pid = "loop"
        /\ logged' = Append(logged, idx)
        /\ matchCalls' = Append(matchCalls, idx)
        /\ IF ReMalformed(constraint.pattern)
           THEN /\ pc3pid' = "raised"
                /\ UNCHANGED <<allow, idx>>
           ELSE IF sameMedium /\ ReMatch(constraint.pattern, address)
           THEN /\ allow' = TRUE
                /\ pc3pid' = "return"
                /\ UNCHANGED idx
           ELSE /\ idx' = idx + 1
                /\ pc3pid' = IF last THEN "return" ELSE "loop"
                /\ UNCHANGED allow
        /\ UNCHANGED <<registrations_require_3pid, medium, address>>
        /\ UNCHANGED <<patVars, clampVars, authVars>>

\* Lines 68-77: one iteration of the for loop over the constraints.
\* logger.debug, then medium == constraint['medium'] and, only when that
\* holds, re.match, which raises re.error on a pattern that does not compile.
Check3pidIter ==
    LET constraint == registrations_require_3pid.items[idx]
        sameMedium == medium = constraint.medium
        last       == idx = Len(registrations_require_3pid.items)
    IN  /\ pc3pid = "loop"
        /\ logged' = Append(logged, idx)
        /\ matchCalls' = IF sameMedium THEN Append(matchCalls, idx) ELSE matchCalls
        /\ IF sameMedium /\ ReMalformed(constraint.pattern)
           THEN /\ pc3pid' = "raised"
                /\ UNCHANGED <<allow, idx>>
           ELSE IF sameMedium /\ ReMatch(constraint.pattern, address)
           THEN /\ allow' = TRUE
                /\ pc3pid' = "return"
                /\ UNCHANGED idx
           ELSE /\ idx' = idx + 1
                /\ pc3pid' = IF last THEN "return" ELSE "loop"
                /\ UNCHANGED allow
        /\ UNCHANGED <<registrations_require_3pid, medium, address>>
        /\ UNCHANGED <<patVars, clampVars, authVars>>

\* Line 81: return allow.
Check3pidReturn ==
    /\ pc3pid = "return"
    /\ pc3pid' = "returned"
    /\ UNCHANGED <<registrations_require_3pid, medium, address, allow, idx,
                   logged, matchCalls>>
    /\ UNCHANGED <<patVars, clampVars, authVars>>

PidNext == Check3pidEnter \/ Check3pidIter \/ Check3pidReturn

Spec3pid == PidInit /\ [][PidNext]_vars

(***************************************************************************)
(* Properties of check_3pid_allowed                                        *)
(***************************************************************************)

Items == registrations_require_3pid.items

\* Constraint i is for the candidate medium and its pattern, a valid one,
\* matches the address from its first character on (not necessarily to its
\* end).
Admits(i) ==
    /\ Items[i].medium = medium
    /\ ~ReMalformed(Items[i].pattern)
    /\ MatchHere(Items[i].pattern, address)

\* Constraint i is for the candidate medium and its pattern does not compile.
Breaks(i) == Items[i].medium = medium /\ ReMalformed(Items[i].pattern)

Seen(trace, i) == \E n \in 1..Len(trace) : trace[n] = i

\* C3: whenever check_3pid_allowed returns, it returns True exactly when
\* the configured list is empty or absent or some constraint has the
\* candidate medium and a pattern matching the address at its start
\* (prefix-anchored, not a full match); so True for an empty list and False
\* for a non-empty list in which no constraint has the candidate medium.
C3_AllowedIffSomeMatch ==
    pc3pid = "returned" =>
        /\ allow <=> (Items = <<>> \/ \E i \in 1..Len(Items) : Admits(i))
        /\ (~registrations_require_3pid.present \/ Items = <<>>) => allow
        /\ (Items # <<>> /\ \A i \in 1..Len(Items) : Items[i].medium # medium)
               => ~allow

\* Allowed by a pattern that matches only the start of the address, after a
\* constraint of the same medium that did not match.
C3_Witness ==
    /\ pc3pid = "returned"
    /\ allow
    /\ Len(Items) = 2
    /\ medium = "email" /\ address = <<"a", "b">>
    /\ Items[1] = [medium |-> "email", pattern |-> <<"a", "$">>]
    /\ Items[2] = [medium |-> "email", pattern |-> <<"a">>]

\* The scan has looked at constraints 1..n, in this order.
ScannedInOrder == \A n \in 1..Len(logged) : logged[n] = n

\* C4: check_3pid_allowed scans the constraints in order and stops at the
\* first match: no constraint after one that matches has its medium compared
\* or its pattern evaluated, and the configured list is never modified.
C4_ShortCircuit ==
    /\ [](/\ ScannedInOrder
          /\ \A i \in 1..Len(Items) :
                Admits(i) => \A j \in (i + 1)..Len(Items) :
                                 ~Seen(logged, j) /\ ~Seen(matchCalls, j))
    /\ [][registrations_require_3pid' = registrations_require_3pid]_vars

\* The first of two constraints matched; the second, which would match as
\* well, was never looked at.
C4_Witness ==
    /\ pc3pid = "returned"
    /\ allow
    /\ Len(Items) = 2
    /\ Admits(1) /\ Admits(2)
    /\ logged = <<1>> /\ matchCalls = <<1>>

AnyMalformed == \E i \in 1..Len(Items) : ReMalformed(Items[i].pattern)

\* C10 as claimed: with a malformed pattern anywhere in the configured
\* list, check_3pid_allowed never returns a boolean.
C10_AnyMalformedRaises == AnyMalformed => pc3pid # "returned"

\* The first constraint of the candidate medium whose pattern either
\* matches the address or does not compile decides the call.
Decides(i) ==
    /\ Admits(i) \/ Breaks(i)
    /\ \A j \in 1..(i - 1) : ~Admits(j) /\ ~Breaks(j)

\* C10 (amended): check_3pid_allowed raises the matching-engine failure
\* exactly when the scan evaluates a malformed pattern, that is when the
\* first constraint of the candidate medium that matches the address or is
\* malformed is a malformed one; otherwise it returns its boolean, whatever
\* malformed patterns the list holds elsewhere.
C10_RaisesIffEvaluated ==
    /\ pc3pid = "raised" =>
          /\ Breaks(idx) /\ Decides(idx)
          /\ matchCalls # <<>> /\ matchCalls[Len(matchCalls)] = idx
    /\ pc3pid = "returned" =>
          /\ ~\E i \in 1..Len(Items) : Breaks(i) /\ Decides(i)
          /\ \A n \in 1..Len(matchCalls) : ~ReMalformed(Items[matchCalls[n]].pattern)

\* A malformed pattern of the other medium was passed over and the malformed
\* pattern of the candidate medium after it raised.
C10_Witness ==
    /\ pc3pid = "raised"
    /\ idx = 2
    /\ ReMalformed(Items[1].pattern) /\ Items[1].medium # medium
    /\ Breaks(2)
    /\ logged = <<1, 2>> /\ matchCalls = <<2>>

(***************************************************************************)
(* interactive_auth_handler                                                *)
(*                                                                         *)
(* Each request i is one call of wrapped: orig[i] is the run of the        *)
(* wrapped on_POST it starts, res[i] the Deferred the call returns,        *)
(* remaining[i] the suspension points the run still has to pass.           *)
(*                                                                         *)
(* A result is a record [kind, type, value]: kind "value" for a returned   *)
(* (code, body) pair, kind "failure" for a twisted Failure of exception    *)
(* class type and exception instance value.                                *)
(***************************************************************************)

Requests == 1..NumRequests

InteractiveAuthIncompleteError == "InteractiveAuthIncompleteError"

NoResult == [kind |-> "none", type |-> "none", value |-> [none |-> TRUE]]

Response(code, body) ==
    [kind |-> "value", type |-> "tuple", value |-> [code |-> code, body |-> body]]

\* Failure(InteractiveAuthIncompleteError(result)).
AuthIncomplete(result) ==
    [kind |-> "failure", type |-> InteractiveAuthIncompleteError,
     value |-> [result |-> result]]

\* Failure(SynapseError(code, msg)): any other exception class.
OtherFailure(msg) ==
    [kind |-> "failure", type |-> "SynapseError", value |-> [msg |-> msg]]

\* Mutant: every failure is turned into a 401, without the trap.
catch_incomplete_interactive_auth_NoTrap(f) ==
    Response(401, IF "result" \in DOMAIN f.value THEN f.value.result ELSE "None")

\* _catch_incomplete_interactive_auth(f): f.trap re-raises a failure of any
\* other class, which stays the result of the Deferred.
catch_incomplete_interactive_auth(f) ==
    IF f.type = InteractiveAuthIncompleteError
    THEN Response(401, f.value.result)
    ELSE f

\* The callables found in a Deferred's callback chain.
Call(fn, r) ==
    IF fn = "_catch_incomplete_interactive_auth"
    THEN catch_incomplete_interactive_auth(r)
    ELSE r  \* defer.passthru

NewDeferred == [called |-> FALSE, result |-> NoResult, callbacks |-> <<>>]

\* Deferred._runCallbacks: once the Deferred has a result, each pair of the
\* chain is taken off and its errback (on a failure) or callback applied.
RECURSIVE RunCallbacks(_)
RunCallbacks(d) ==
    IF ~d.called \/ d.callbacks = <<>> THEN d
    ELSE LET pair == Head(d.callbacks)
             fn   == IF d.result.kind = "failure" THEN pair.errback ELSE pair.callback
         IN  RunCallbacks([d EXCEPT !.result = Call(fn, @), !.callbacks = Tail(@)])

\* Mutant: the handler is added as a callback, not as an errback.
AddErrback_AsCallback(d, errback) ==
    RunCallbacks([d EXCEPT !.callbacks =
                     Append(@, [callback |-> errback, errback |-> "passthru"])])

\* Deferred.addErrback(errback) = addCallbacks(passthru, errback).
AddErrback(d, errback) ==
    RunCallbacks([d EXCEPT !.callbacks =
                     Append(@, [callback |-> "passthru", errback |-> errback])])

\* Deferred.callback(result) / Deferred.errback(failure).
Fire(d, r) == RunCallbacks([d EXCEPT !.called = TRUE, !.result = r])

\* defer.maybeDeferred(orig, ...).  A plain function has
\* returned or raised: defer.succeed / defer.fail.  An inlineCallbacks
\* generator returns its Deferred, fired already when it ran to its end
\* without waiting, unfired otherwise.
MaybeDeferred(run) ==
    IF run.style = "plain" \/ run.susp = 0
    THEN Fire(NewDeferred, run.outcome)
    ELSE NewDeferred

Payloads == {"session1", "session2"}

Outcomes ==
    {Response(200, "ok"), Response(400, "bad")}
    \cup {AuthIncomplete(p) : p \in Payloads}
    \cup {OtherFailure("boom")}

\* The runs of orig: what it ends with, after how many suspensions.
Runs ==
    [style : {"plain"}, susp : {0}, outcome : Outcomes]
    \cup [style : {"inline"}, susp : 0..MaxSuspend, outcome : Outcomes]

NoRun == [style |-> "none", susp |-> 0, outcome |-> NoResult]

AuthInit ==
    /\ orig = [i \in Requests |-> NoRun]
    /\ remaining = [i \in Requests |-> 0]
    /\ res = [i \in Requests |-> NewDeferred]
    /\ pcAuth = [i \in Requests |-> "idle"]
    /\ PatIdle /\ ClampIdle /\ PidIdle

\* wrapped, lines 99-102: orig runs up to its first
\* suspension or to its end, the errback is added, res is returned.
Wrapped(i, run) ==
    /\ pcAuth[i] = "idle"
    /\ orig' = [orig EXCEPT ![i] = run]
    /\ LET d == AddErrback(MaybeDeferred(run), "_catch_incomplete_interactive_auth")
       IN  /\ res' = [res EXCEPT ![i] = d]
           /\ pcAuth' = [pcAuth EXCEPT ![i] = IF d.called THEN "resolved" ELSE "suspended"]
    /\ remaining' = [remaining EXCEPT ![i] = IF run.style = "inline" THEN run.susp ELSE 0]
    /\ UNCHANGED <<patVars, clampVars, pidVars>>

\* The Deferred that run i waits on fires: the run resumes, up to its next
\* suspension or to its end, where its Deferred fires with its outcome.
Resume(i) ==
    /\ pcAuth[i] = "suspended"
    /\ remaining' = [remaining EXCEPT ![i] = @ - 1]
    /\ IF remaining[i] = 1
       THEN /\ res' = [res EXCEPT ![i] = Fire(@, orig[i].outcome)]
            /\ pcAuth' = [pcAuth EXCEPT ![i] = "resolved"]
       ELSE UNCHANGED <<res, pcAuth>>
    /\ UNCHANGED orig
    /\ UNCHANGED <<patVars, clampVars, pidVars>>

AuthNext ==
    \/ \E i \in Requests, run \in Runs : Wrapped(i, run)
    \/ \E i \in Requests : Resume(i)

SpecAuth == AuthInit /\ [][AuthNext]_vars

(***************************************************************************)
(* Properties of interactive_auth_handler                                  *)
(***************************************************************************)

\* C1: when the run of a wrapped handler raises
\* InteractiveAuthIncompleteError with result P, before any suspension or
\* after any number of them, the Deferred of that call resolves to (401, P),
\* P being the payload of its own run, whatever other calls are running.
C1_SignalBecomes401 ==
    \A i \in Requests :
        (pcAuth[i] = "resolved" /\ orig[i].outcome.type = InteractiveAuthIncompleteError)
            => /\ res[i].called
               /\ res[i].callbacks = <<>>
               /\ res[i].result.kind = "value"
               /\ res[i].result.value.code = 401
               /\ res[i].result.value.body = orig[i].outcome.value.result

\* Two calls were running at once and both raised the signal, one before any
\* suspension, one after MaxSuspend of them, with different payloads.
C1_Witness ==
    /\ pcAuth[1] = "resolved" /\ pcAuth[2] = "resolved"
    /\ orig[1] = [style |-> "inline", susp |-> MaxSuspend,
                  outcome |-> AuthIncomplete("session1")]
    /\ orig[2].susp = 0 /\ orig[2].outcome = AuthIncomplete("session2")
    /\ res[1].result = Response(401, "session1")
    /\ res[2].result = Response(401, "session2")

\* C2: a (code, body) pair the handler returns is the result of the wrapped
\* call unchanged, and a failure of any class other than
\* InteractiveAuthIncompleteError is the result of the wrapped call, the
\* same failure, never a 401 response.
C2_Transparent ==
    \A i \in Requests :
        (pcAuth[i] = "resolved" /\ orig[i].outcome.type # InteractiveAuthIncompleteError)
            => /\ res[i].called
               /\ res[i].callbacks = <<>>
               /\ res[i].result.kind = orig[i].outcome.kind
               /\ res[i].result.type = orig[i].outcome.type
               /\ res[i].result.value = orig[i].outcome.value

\* One call resolved with the pair its handler returned, another failed with
\* the failure its handler raised after a suspension.
C2_Witness ==
    /\ pcAuth[1] = "resolved" /\ pcAuth[2] = "resolved"
    /\ orig[1].outcome = Response(200, "ok") /\ res[1].result = Response(200, "ok")
    /\ orig[2].susp >= 1 /\ orig[2].outcome = OtherFailure("boom")
    /\ res[2].result.kind = "failure" /\ res[2].result.type = "SynapseError"

====
